---- MODULE Spec2Model ----
(***************************************************************************)
(* sts-rs: a small time-series recorder (src/src/main.rs).                 *)
(*                                                                         *)
(* HTTP handler threads run get_series and add_datum against the shared    *)
(* AppState (a Mutex<HashMap<String, Series>> and the address of the       *)
(* BackgroundActor).  add_datum mutates the map under the mutex and sends  *)
(* a WriteCsv message to the actor; the actor appends the last datum of    *)
(* the message to <name>.csv and runs gnuplot.  main rebuilds the map from *)
(* the csv files found in the data directory before the server starts.     *)
(***************************************************************************)
EXTENDS Integers, Sequences, FiniteSets, TLC

(***************************************************************************)
(* Bounds of the model.                                                    *)
(***************************************************************************)
\* add_datum calls that get past deserialization, over a whole behaviour
MaxWrites == 3
\* times the process is stopped and started again
MaxRestarts == 1
\* wall-clock second at which the behaviour starts
StartTime == 300

\* i64::MIN, the start value of the maximum in read_csv_data; the model
\* scales the 64-bit range down to TLC's integers.
I64_MIN == -100000
\* The largest second chrono's Utc.timestamp accepts before it panics
\* ("No such local time"), scaled like I64_MIN.
CHRONO_MAX == 1000

Names == {"a", "b"}
Threads == {"t1", "t2"}
\* timeStamp values of well-formed requests
Timestamps == {50, 100, 200}
\* an i64 outside the range chrono can represent
HugeTimestamp == CHRONO_MAX + 1
Values == {7}

(***************************************************************************)
(* Datum, and the text forms it takes in a request body and in a csv line. *)
(***************************************************************************)
Datum(ts, v) == [timeStamp |-> ts, value |-> v]

NoDatum == Datum(0, 0)

\* A token of text: k says what the text is, v is the number it spells.
Tok(k, v) == [k |-> k, v |-> v]

\* JSON bodies of POST /{name}: well-formed ones, one whose timeStamp is an
\* i64 chrono cannot represent, one whose timeStamp is not an integer, one
\* whose value is not a number and one whose value overflows f64.
Payloads ==
    {[timeStamp |-> Tok("int", ts), value |-> Tok("num", v)] :
        ts \in Timestamps \cup {HugeTimestamp}, v \in Values}
    \cup {[timeStamp |-> Tok("str", 0), value |-> Tok("num", 7)],
          [timeStamp |-> Tok("int", 50), value |-> Tok("str", 0)],
          [timeStamp |-> Tok("int", 50), value |-> Tok("inf", 0)]}

\* The requests POST /{name} of the model: every payload for series "a",
\* one well-formed payload for series "b".
Posts ==
    {<<"a", body>> : body \in Payloads}
    \cup {<<"b", [timeStamp |-> Tok("int", 100), value |-> Tok("num", 7)]>>}

\* Mutant of Deserializable: a parser that lets a non-finite value through.
DeserializableLenient(body) ==
    body.timeStamp.k = "int" /\ body.value.k \in {"num", "inf"}

\* web::Json<Datum>: serde accepts the body iff timeStamp is an i64 literal
\* and value a finite f64 literal.
Deserializable(body) == body.timeStamp.k = "int" /\ body.value.k = "num"

Deserialize(body) == Datum(body.timeStamp.v, body.value.v)

\* Utc.timestamp(secs, 0) panics outside chrono's range.
InChronoRange(secs) == secs >= -CHRONO_MAX /\ secs <= CHRONO_MAX

\* wtr.serialize(datum): one csv record "<timeStamp>,<value>".
Serialize(d) == [ts |-> Tok("num", d.timeStamp), value |-> Tok("num", d.value)]

\* A record that does not parse (a torn or foreign line).
CorruptRecord == [ts |-> Tok("bad", 0), value |-> Tok("bad", 0)]

\* Mutant of FileName: one file for all series.
FileNameShared(series_name) == [stem |-> "a", ext |-> "csv"]

\* The path of a series' csv file and the key Recovery derives from a path.
FileName(series_name) == [stem |-> series_name, ext |-> "csv"]

file_stem(path) == path.stem

(***************************************************************************)
(* Recovery: read_csv_data and read_series.                                *)
(***************************************************************************)
\* record.get(0).parse::<i64>() and record.get(1).parse::<f64>() succeed
ParsesOk(rec) == rec.ts.k = "num" /\ rec.value.k = "num"

\* Mutant of ParseRecord: the two columns read in the wrong order.
ParseRecordSwapped(rec) == Datum(rec.value.v, rec.ts.v)

ParseRecord(rec) == Datum(rec.ts.v, rec.value.v)

\* Mutant of LastModifiedOf: the timestamp of the last record, not the maximum.
LastTimestampOf(records, last_modified) ==
    IF records = <<>> THEN last_modified ELSE records[Len(records)].ts.v

\* the running maximum kept by the closure of read_csv_data
RECURSIVE LastModifiedOf(_, _)
LastModifiedOf(records, last_modified) ==
    IF records = <<>> THEN last_modified
    ELSE LastModifiedOf(Tail(records),
                        IF last_modified < Head(records).ts.v
                        THEN Head(records).ts.v ELSE last_modified)

\* Mutant of ReadCsvPanics: fields read with unwrap_or_default, so that no
\* record is fatal.
ReadCsvNeverPanics(records) == FALSE

\* read_csv_data panics (unwrap) on a record that does not parse
ReadCsvPanics(records) == \E i \in 1..Len(records) : ~ParsesOk(records[i])

\* Mutant of read_csv_data: a reader left at has_headers(true), which takes
\* the first line for a header.
ReadCsvDataWithHeader(records) ==
    [data |-> [i \in 1..(Len(records) - 1) |-> ParseRecord(records[i + 1])],
     last_modified |-> LastModifiedOf(records, I64_MIN)]

read_csv_data(records) ==
    [data |-> [i \in 1..Len(records) |-> ParseRecord(records[i])],
     last_modified |-> LastModifiedOf(records, I64_MIN)]

\* Mutant of ReadSeriesPanics: the maximum is converted without a panic
\* (timestamp_opt), so only a record that does not parse is fatal.
ReadSeriesPanicsOnRecordsOnly(dir) ==
    \E f \in DOMAIN dir : ReadCsvPanics(dir[f])

\* read_series panics when a file does, or when Utc.timestamp rejects the
\* maximum (i64::MIN for a file without records).
ReadSeriesPanics(dir) ==
    \E f \in DOMAIN dir :
        \/ ReadCsvPanics(dir[f])
        \/ ~InChronoRange(read_csv_data(dir[f]).last_modified)

\* The file whose stem is the key; the model's directories hold one file
\* per stem.
FileOfKey(dir, key) == CHOOSE f \in DOMAIN dir : file_stem(f) = key

read_series(dir) ==
    [key \in {file_stem(f) : f \in DOMAIN dir} |->
        [data |-> read_csv_data(dir[FileOfKey(dir, key)]).data,
         last_modification_time |->
             read_csv_data(dir[FileOfKey(dir, key)]).last_modified]]

(***************************************************************************)
(* The Series Store (lines 206-219 of add_datum, 187-195 of get_series).   *)
(***************************************************************************)
\* Mutant of Ingest: insert on every call, replacing the series.
IngestOverwrite(store, series_name, info, utc_now) ==
    (series_name :> [data |-> <<info>>,
                     last_modification_time |-> utc_now]) @@ store

\* The map after add_datum's if/else: push onto an existing series, or
\* insert a new one stamped with Utc::now().  The push leaves
\* last_modification_time as it was.
Ingest(store, series_name, info, utc_now) ==
    IF series_name \in DOMAIN store
    THEN [store EXCEPT ![series_name].data = Append(@, info)]
    ELSE (series_name :> [data |-> <<info>>,
                          last_modification_time |-> utc_now]) @@ store

\* Mutant of CurrentValues: the copy is taken before the push.
CurrentValuesBeforePush(store, series_name, info) ==
    IF series_name \in DOMAIN store THEN store[series_name].data ELSE <<>>

\* current_values: series.data.to_vec() after the push, or vec![info]
CurrentValues(store, series_name, info) ==
    IF series_name \in DOMAIN store
    THEN Append(store[series_name].data, info)
    ELSE <<info>>

\* The message add_datum sends to the actor
WriteCsv(series_name, data) == [series_name |-> series_name, data |-> data]

\* Responses: status code, and for get_series the count in the body
Response(code, count) == [code |-> code, count |-> count]

NoResponse == Response(0, 0)

\* A panicking handler sends no response (the connection is dropped).
Dropped == Response(-1, 0)

GetSeriesResponse(store, series_name) ==
    IF series_name \in DOMAIN store
    THEN Response(200, Len(store[series_name].data))
    ELSE Response(404, 0)

(***************************************************************************)
(* The Durable Log (append_last_datum).                                    *)
(***************************************************************************)
FileContents(dir, f) == IF f \in DOMAIN dir THEN dir[f] ELSE <<>>

\* Mutant of append_last_datum: every datum of the message is written.
AppendAllData(dir, file_name, data) ==
    (file_name :>
        FileContents(dir, file_name)
        \o [i \in 1..Len(data) |-> Serialize(data[i])])
    @@ dir

\* open(create, append); serialize data.last() if there is one; flush
append_last_datum(dir, file_name, data) ==
    (file_name :>
        (IF data = <<>> THEN FileContents(dir, file_name)
         ELSE Append(FileContents(dir, file_name),
                     Serialize(data[Len(data)]))))
    @@ dir

\* What a failing append can leave behind: nothing when open fails
\* ("open"), part of the record when the write fails ("torn").
IoFailures == {"open", "torn"}

FailedAppend(dir, file_name, failure) ==
    CASE failure = "open" -> dir
      [] failure = "torn" ->
            (file_name :> Append(FileContents(dir, file_name), CorruptRecord))
            @@ dir

(***************************************************************************)
(* State.  Responses, log lines and the svg files gnuplot writes are       *)
(* outputs that nothing reads back; they are not part of the state.        *)
(***************************************************************************)
VARIABLES
    status,      \* "serving", "aborted" (startup panicked), "crashed"
    files,       \* the data directory: FileName -> sequence of csv records
    series,      \* AppState.series: series name -> Series
    lock,        \* holder of the Mutex around series, or "free"
    pc,          \* per handler thread: where its request stands
    local,       \* per handler thread: series_name, info, current_values
    mailbox,     \* WriteCsv messages sent to the BackgroundActor, in order
    wpc,         \* the actor: "idle", "plot" (between append and plot), "dead"
    wmsg,        \* the message the actor is handling
    now,         \* the wall clock (Utc::now) at its last reading, in seconds
    writes,      \* add_datum calls begun so far (bounded by MaxWrites)
    restarts,    \* restarts so far (bounded by MaxRestarts)
    recovered,   \* history: the store as Recovery built it in this run
    calls        \* history: per name, add_datum calls that returned Ok in this run

vars == <<status, files, series, lock, pc, local, mailbox, wpc, wmsg, now,
          writes, restarts, recovered, calls>>

EmptyMap == [k \in {} |-> 0]

NoLocal == [series_name |-> "", info |-> NoDatum, current_values |-> <<>>]

NoMsg == WriteCsv("", <<>>)

Rec(ts) == Serialize(Datum(ts, 7))

\* Data directories the process may find at its first start: empty; a log
\* whose maximum timestamp is not its last; a log with a corrupt record; a
\* file without records.
InitialDirs ==
    {EmptyMap,
     (FileName("a") :> <<Rec(100), Rec(50)>>),
     (FileName("a") :> <<Rec(100), CorruptRecord>>),
     (FileName("b") :> <<>>)}

(***************************************************************************)
(* main: Recovery, then the server and the actor start.                    *)
(***************************************************************************)
\* main, lines 324-333, over the directory dir: read_series panics and
\* startup aborts, or the store is built and requests are served.  The
\* primed variables are those of the process that starts.
Main(dir) ==
    /\ IF ReadSeriesPanics(dir)
       THEN /\ status' = "aborted"
            /\ series' = EmptyMap
            /\ recovered' = EmptyMap
       ELSE /\ status' = "serving"
            /\ series' = read_series(dir)
            /\ recovered' = read_series(dir)
    /\ lock' = "free"
    /\ pc' = [t \in Threads |-> "idle"]
    /\ local' = [t \in Threads |-> NoLocal]
    /\ mailbox' = <<>>
    /\ wpc' = "idle"
    /\ wmsg' = NoMsg
    /\ calls' = [n \in Names |-> 0]

Init ==
    /\ files \in InitialDirs
    /\ status = IF ReadSeriesPanics(files) THEN "aborted" ELSE "serving"
    /\ series = IF ReadSeriesPanics(files) THEN EmptyMap ELSE read_series(files)
    /\ recovered = series
    /\ lock = "free"
    /\ pc = [t \in Threads |-> "idle"]
    /\ local = [t \in Threads |-> NoLocal]
    /\ mailbox = <<>>
    /\ wpc = "idle"
    /\ wmsg = NoMsg
    /\ now = StartTime
    /\ writes = 0
    /\ restarts = 0
    /\ calls = [n \in Names |-> 0]

\* The process is stopped at any moment (killed, or already crashed) and
\* started again: what it held in memory is gone, the files stay, and main
\* runs over them.
Restart ==
    /\ status \in {"serving", "crashed"}
    /\ restarts < MaxRestarts
    /\ restarts' = restarts + 1
    /\ Main(files)
    /\ UNCHANGED <<files, now, writes>>

\* Mutant of GetSeries: the lookup goes through the entry API and leaves an
\* empty series behind for a name it did not find.
GetSeriesInserting(t, series_name) ==
    /\ status = "serving"
    /\ pc[t] = "idle"
    /\ lock = "free"
    /\ GetSeriesResponse(series, series_name).code \in {200, 404}
    /\ series' = IF series_name \in DOMAIN series
                 THEN series
                 ELSE (series_name :> [data |-> <<>>,
                                       last_modification_time |-> now])
                          @@ series
    /\ UNCHANGED <<status, files, lock, pc, local, mailbox, wpc, wmsg, now,
                   writes, restarts, recovered, calls>>

(***************************************************************************)
(* get_series (lines 184-196).  The guard is taken and dropped within the  *)
(* call, which changes nothing; its response is GetSeriesResponse.         *)
(***************************************************************************)
GetSeries(t, series_name) ==
    /\ status = "serving"
    /\ pc[t] = "idle"
    /\ lock = "free"
    /\ GetSeriesResponse(series, series_name).code \in {200, 404}
    /\ UNCHANGED vars

(***************************************************************************)
(* add_datum (lines 198-231).                                              *)
(***************************************************************************)
\* What the request gets when the handler does not reach the lock: 400
\* from the Json extractor for a body serde rejects, no response when
\* Utc.timestamp panics at line 203.
EarlyResponse(body) ==
    IF ~Deserializable(body) THEN Response(400, 0) ELSE Dropped

\* The payload is accepted: the extractor deserialized it and line 203 did
\* not panic.
Valid(body) ==
    /\ Deserializable(body)
    /\ InChronoRange(Deserialize(body).timeStamp)

\* Extraction of Json<Datum> and lines 203-204.  A body that is not valid
\* ends the request here; otherwise the call goes on to take the lock.
AddDatumBegin(t, series_name, body) ==
    /\ status = "serving"
    /\ pc[t] = "idle"
    /\ IF ~Valid(body)
       THEN /\ EarlyResponse(body).code /= 200
            /\ pc' = [pc EXCEPT ![t] = "rejected"]
            /\ UNCHANGED <<local, writes>>
       ELSE /\ writes < MaxWrites
            /\ writes' = writes + 1
            /\ pc' = [pc EXCEPT ![t] = "lock"]
            /\ local' = [local EXCEPT ![t] =
                            [series_name |-> series_name,
                             info |-> Deserialize(body),
                             current_values |-> <<>>]]
    /\ UNCHANGED <<status, files, series, lock, mailbox, wpc, wmsg, now,
                   recovered, calls, restarts>>

\* The rejected request is over: its thread takes the next one.
AddDatumReject(t) ==
    /\ status = "serving"
    /\ pc[t] = "rejected"
    /\ pc' = [pc EXCEPT ![t] = "idle"]
    /\ UNCHANGED <<status, files, series, lock, local, mailbox, wpc, wmsg, now,
                   writes, restarts, recovered, calls>>

\* Mutant of LockAfterMutation: the guard is dropped with the if/else.
LockDroppedEarly(t) == "free"

\* The holder of the mutex after the if/else of lines 206-219: the guard w
\* is bound in the function body, so thread t still holds it.
LockAfterMutation(t) == t

\* Lines 205-219: lock, then push or insert, and keep the copy of the data.
\* The clock has advanced since its last reading.
AddDatumMutate(t) ==
    /\ status = "serving"
    /\ pc[t] = "lock"
    /\ lock = "free"
    /\ lock' = LockAfterMutation(t)
    /\ now' = now + 1
    /\ series' = Ingest(series, local[t].series_name, local[t].info, now')
    /\ local' = [local EXCEPT ![t].current_values =
                    CurrentValues(series, local[t].series_name, local[t].info)]
    /\ pc' = [pc EXCEPT ![t] = "send"]
    /\ UNCHANGED <<status, files, mailbox, wpc, wmsg, writes, restarts,
                   recovered, calls>>

\* Mutant of do_send: try_send on a mailbox of capacity one, which gives
\* the message up when another is waiting.
TrySendCapacityOne(box, actor, msg) ==
    IF actor = "dead" \/ box /= <<>> THEN box ELSE Append(box, msg)

\* do_send: the message joins the mailbox; a stopped actor's mailbox is
\* closed and the message is discarded (the Err is ignored).
do_send(box, actor, msg) ==
    IF actor = "dead" THEN box ELSE Append(box, msg)

\* Mutant of DoSendReady: a send that waits until the actor has handled
\* what was sent before.
SendWaitsForActor(box, actor) == box = <<>> /\ actor = "idle"

\* do_send does not wait: the message is queued whatever the mailbox holds
\* and whatever the actor is doing.
DoSendReady(box, actor) == TRUE

\* The mutex once the guard w goes out of scope at the end of add_datum
ReleaseLock(holder) == "free"

\* Lines 220-231: the message is sent, Ok(...) is returned and the guard is
\* dropped.
AddDatumSend(t) ==
    /\ status = "serving"
    /\ pc[t] = "send"
    /\ DoSendReady(mailbox, wpc)
    /\ mailbox' = do_send(mailbox, wpc,
                          WriteCsv(local[t].series_name, local[t].current_values))
    /\ lock' = ReleaseLock(lock)
    /\ calls' = [calls EXCEPT ![local[t].series_name] = @ + 1]
    /\ pc' = [pc EXCEPT ![t] = "idle"]
    /\ local' = [local EXCEPT ![t] = NoLocal]
    /\ UNCHANGED <<status, files, series, wpc, wmsg, now, writes, restarts,
                   recovered>>

(***************************************************************************)
(* Handler<WriteCsv> for BackgroundActor (lines 152-166).                  *)
(***************************************************************************)
\* A panic in the handler ends the actor; the messages still queued are
\* never handled.  Whether the panic also takes the process down depends on
\* the runtime, so both are possible: the handler threads go on, or they
\* end with the process (series then stands for what the store held when
\* the process died).
\* Mutant of ActorPanics: a supervisor restarts the actor and leaves the
\* mailbox as it was, so that a message whose append failed is handled again.
ActorRestartsAndRetries ==
    /\ wpc' = "idle"
    /\ mailbox' = mailbox
    /\ wmsg' = NoMsg
    /\ status' = "serving"
    /\ UNCHANGED <<lock, pc, local>>

ActorPanics ==
    /\ wpc' = "dead"
    /\ mailbox' = <<>>
    /\ wmsg' = NoMsg
    /\ \/ /\ status' = "serving"
          /\ UNCHANGED <<lock, pc, local>>
       \/ /\ status' = "crashed"
          /\ lock' = "free"
          /\ pc' = [t \in Threads |-> "idle"]
          /\ local' = [t \in Threads |-> NoLocal]

\* Mutant of HandleAppend: a second handler takes the next message while
\* the render of the one before is still running.
HandleAppendWhileRendering ==
    /\ status = "serving"
    /\ wpc \in {"idle", "plot"}
    /\ mailbox /= <<>>
    /\ \/ /\ files' = append_last_datum(files,
                          FileName(Head(mailbox).series_name), Head(mailbox).data)
          /\ wmsg' = Head(mailbox)
          /\ wpc' = "plot"
          /\ mailbox' = Tail(mailbox)
          /\ UNCHANGED <<status, lock, pc, local>>
       \/ \E failure \in IoFailures :
          /\ files' = FailedAppend(files,
                          FileName(Head(mailbox).series_name), failure)
          /\ ActorPanics
    /\ UNCHANGED <<series, now, writes, restarts, recovered, calls>>

\* Lines 155-163: take the next message and append its last datum; any of
\* the unwraps of append_last_datum may panic.
HandleAppend ==
    /\ status = "serving"
    /\ wpc = "idle"
    /\ mailbox /= <<>>
    /\ \/ /\ files' = append_last_datum(files,
                          FileName(Head(mailbox).series_name), Head(mailbox).data)
          /\ wmsg' = Head(mailbox)
          /\ wpc' = "plot"
          /\ mailbox' = Tail(mailbox)
          /\ UNCHANGED <<status, lock, pc, local>>
       \/ \E failure \in IoFailures :
          /\ files' = FailedAppend(files,
                          FileName(Head(mailbox).series_name), failure)
          /\ ActorPanics
    /\ UNCHANGED <<series, now, writes, restarts, recovered, calls>>

\* Outcomes of Command::new("gnuplot").output()
PlotOutcomes == {"success", "exit_nonzero", "not_started"}

\* log_command_failure: a failing exit status is logged as a warning
log_command_failure(outcome) ==
    IF outcome = "exit_nonzero" THEN "warn" ELSE "none"

\* Lines 164 and 113-150: gnuplot runs and its failure is logged, or
\* expect() panics when gnuplot cannot be started.
HandlePlot ==
    /\ status = "serving"
    /\ wpc = "plot"
    /\ \E outcome \in PlotOutcomes :
        IF outcome = "not_started"
        THEN ActorPanics
        ELSE /\ log_command_failure(outcome) \in {"warn", "none"}
             /\ wpc' = "idle"
             /\ wmsg' = NoMsg
             /\ UNCHANGED <<mailbox, status, lock, pc, local>>
    /\ UNCHANGED <<files, series, now, writes, restarts, recovered, calls>>

Next ==
    \/ Restart
    \/ \E t \in Threads, n \in Names : GetSeries(t, n)
    \/ \E t \in Threads, post \in Posts : AddDatumBegin(t, post[1], post[2])
    \/ \E t \in Threads : AddDatumReject(t)
    \/ \E t \in Threads : AddDatumMutate(t)
    \/ \E t \in Threads : AddDatumSend(t)
    \/ HandleAppend
    \/ HandlePlot

Spec == Init /\ [][Next]_vars

(***************************************************************************)
(* Properties.                                                             *)
(***************************************************************************)
\* Every request has returned and the actor has handled every message
\* without a panic.
Quiescent ==
    /\ status = "serving"
    /\ wpc = "idle"
    /\ mailbox = <<>>
    /\ \A t \in Threads : pc[t] \in {"idle", "rejected"}

Count(store, n) == IF n \in DOMAIN store THEN Len(store[n].data) ELSE 0

LogCount(n) == Len(FileContents(files, FileName(n)))

\* add_datum calls on n that have changed the store and not yet returned
InFlight(n) ==
    Cardinality({t \in Threads : pc[t] = "send" /\ local[t].series_name = n})

TimestampsOf(data) == [i \in 1..Len(data) |-> data[i].timeStamp]

\* C1: no lost writes.  Every add_datum call on a name adds exactly one
\* point to its series, and once all calls have returned and the actor has
\* drained its mailbox without a failure, the series and its log both hold
\* the recovered points plus one per call.
C1_NoLostWrites ==
    status = "serving" =>
        \A n \in Names :
            /\ Count(series, n) = Count(recovered, n) + calls[n] + InFlight(n)
            /\ Quiescent => LogCount(n) = Count(recovered, n) + calls[n]

\* Three calls on a series unknown at start have returned and are durable.
C1_Witness ==
    /\ Quiescent
    /\ "a" \notin DOMAIN recovered
    /\ calls["a"] = 3
    /\ Count(series, "a") = 3
    /\ LogCount("a") = 3

\* C2: once the actor has drained its mailbox, the log of every series is
\* the series' points in the order they were pushed, whatever their
\* timestamps and however the calls interleaved.
C2_LogInArrivalOrder ==
    Quiescent =>
        \A n \in DOMAIN series :
            FileContents(files, FileName(n))
                = [i \in 1..Len(series[n].data) |-> Serialize(series[n].data[i])]

\* Timestamps 100, 50, 200 written to a new series are logged in that order.
C2_Witness ==
    /\ Quiescent
    /\ "a" \notin DOMAIN recovered
    /\ "a" \in DOMAIN series
    /\ TimestampsOf(series["a"].data) = <<100, 50, 200>>
    /\ FileContents(files, FileName("a")) = <<Rec(100), Rec(50), Rec(200)>>

\* C3: whenever get_series can run (the mutex is free), what it reports for
\* a name is the recovered count plus the number of add_datum calls on that
\* name that returned Ok, and 404 when both are zero.
C3_ReadReportsCount ==
    (status = "serving" /\ lock = "free") =>
        \A n \in Names :
            GetSeriesResponse(series, n)
                = IF Count(recovered, n) + calls[n] = 0
                  THEN Response(404, 0)
                  ELSE Response(200, Count(recovered, n) + calls[n])

\* Two writes to a name unknown at start, interleaved with a write to
\* another name: a read reports 2.
C3_Witness ==
    /\ status = "serving"
    /\ lock = "free"
    /\ "b" \notin DOMAIN recovered
    /\ calls["b"] = 2
    /\ calls["a"] = 1
    /\ GetSeriesResponse(series, "b") = Response(200, 2)

\* C4: after every ingestion into a series, creating or appending, its
\* last_modification_time is the time of that ingestion.
C4_LastModifiedIsLatestIngestion ==
    [][\A n \in DOMAIN series' :
          (restarts' = restarts /\ Count(series', n) /= Count(series, n))
              => series'[n].last_modification_time = now']_vars

\* The step in which the actor's append fails
AppendFailedStep ==
    /\ status = "serving"
    /\ wpc = "idle"
    /\ mailbox /= <<>>
    /\ wpc' /= "idle"
    /\ files' /= append_last_datum(files, FileName(Head(mailbox).series_name),
                                   Head(mailbox).data)

\* C5: a failed append leaves the store as it is, the process serving and
\* the actor alive with the later messages still to be handled.
C5_AppendFailureIsSurvived ==
    [][AppendFailedStep =>
          /\ series' = series
          /\ status' = "serving"
          /\ wpc' /= "dead"
          /\ mailbox' = Tail(mailbox)]_vars

\* The step in which generate_plot ends, well or not
PlotEndsStep == wpc = "plot" /\ wpc' /= "plot" /\ restarts' = restarts

\* C6: however gnuplot fails, the record stays in the log, nothing is
\* appended again, the process serves on and the actor goes on to the next
\* message.
C6_RenderFailureIsOnlyLogged ==
    [][PlotEndsStep =>
          /\ files' = files
          /\ series' = series
          /\ mailbox' = mailbox
          /\ status' = "serving"
          /\ wpc' = "idle"]_vars

\* A payload that fails validation: a timeStamp that is no integer or out
\* of range, a value that is no number or not finite.
FailsValidation(body) ==
    \/ body.timeStamp.k /= "int"
    \/ body.timeStamp.v > CHRONO_MAX
    \/ body.timeStamp.v < -CHRONO_MAX
    \/ body.value.k /= "num"

\* C7: a write whose payload fails validation is rejected before the lock
\* is taken: the store, the mailbox and the logs are unchanged and the call
\* never goes on to send a message.
C7_InvalidWriteTouchesNothing ==
    [][\A t \in Threads :
          /\ (pc[t] = "idle" /\ pc'[t] /= "idle") =>
                \A post \in Posts :
                    (FailsValidation(post[2]) /\ AddDatumBegin(t, post[1], post[2]))
                        => /\ pc'[t] = "rejected"
                           /\ UNCHANGED <<series, mailbox, files, lock, local>>
          /\ (/\ pc[t] = "rejected" /\ pc'[t] /= "rejected"
              /\ restarts' = restarts /\ status' = "serving")
                => /\ pc'[t] = "idle"
                   /\ UNCHANGED <<series, mailbox, files, lock, local>>]_vars

\* A write has been rejected while the store holds points and a message is
\* queued.
C7_Witness ==
    /\ \E t \in Threads : pc[t] = "rejected"
    /\ series /= EmptyMap
    /\ mailbox /= <<>>
    /\ lock = "free"

\* The greatest timestamp of a non-empty sequence of points
MaxTimestamp(data) ==
    CHOOSE m \in {data[i].timeStamp : i \in 1..Len(data)} :
        \A i \in 1..Len(data) : data[i].timeStamp <= m

\* C8 as claimed: a restart from a quiescent state yields the identical
\* store: same names, same counts, same last_modification_time.
C8_RestartYieldsIdenticalStore ==
    [][(Quiescent /\ restarts' = restarts + 1) =>
          /\ DOMAIN series' = DOMAIN series
          /\ \A n \in DOMAIN series :
                /\ Count(series', n) = Count(series, n)
                /\ series'[n].last_modification_time
                       = series[n].last_modification_time]_vars

\* C8 as amended: a restart from a quiescent state yields a store with the
\* same names and the same points; last_modification_time is the same only
\* where it already was the greatest timestamp of the series.
C8_RestartPreservesNamesAndPoints ==
    [][(Quiescent /\ restarts' = restarts + 1) =>
          /\ status' = "serving"
          /\ DOMAIN series' = DOMAIN series
          /\ \A n \in DOMAIN series :
                /\ series'[n].data = series[n].data
                /\ (series[n].last_modification_time = MaxTimestamp(series[n].data)
                        => series'[n].last_modification_time
                               = series[n].last_modification_time)]_vars

\* After a restart the store holds a series that the run before created and
\* made durable.
C8_Witness ==
    /\ restarts = 1
    /\ status = "serving"
    /\ series = recovered
    /\ "b" \in DOMAIN series
    /\ Count(series, "a") = 2
    /\ \A t \in Threads : pc[t] = "idle"

\* store is what Recovery has to build from the directory dir
IsRecoveryOf(store, dir) ==
    /\ DOMAIN store = {f.stem : f \in DOMAIN dir}
    /\ \A f \in DOMAIN dir :
          /\ Len(store[f.stem].data) = Len(dir[f])
          /\ \A i \in 1..Len(dir[f]) :
                /\ store[f.stem].data[i].timeStamp = dir[f][i].ts.v
                /\ store[f.stem].data[i].value = dir[f][i].value.v
                /\ dir[f][i].ts.v <= store[f.stem].last_modification_time
          /\ \E i \in 1..Len(dir[f]) :
                dir[f][i].ts.v = store[f.stem].last_modification_time

\* C9: as long as a run has ingested nothing, its store is what Recovery
\* built: one series per log file, keyed by the file's stem, with the
\* file's records in file order and their greatest timestamp as
\* last_modification_time.
C9_RecoveryBuildsStoreFromLogs ==
    (/\ status = "serving"
     /\ \A n \in Names : calls[n] = 0
     /\ \A t \in Threads : pc[t] /= "send")
        => IsRecoveryOf(series, files)

\* A log recovered after a restart whose greatest timestamp is neither its
\* first nor its last.
C9_Witness ==
    /\ restarts = 1
    /\ status = "serving"
    /\ \A n \in Names : calls[n] = 0
    /\ \A t \in Threads : pc[t] /= "send"
    /\ "a" \in DOMAIN series
    /\ TimestampsOf(series["a"].data) = <<100, 50, 200, 50>>
    /\ series["a"].last_modification_time = 200

\* C10: add_datum and get_series never wait for the actor.  A call that
\* holds the mutex can send and return, and a call or a read that needs the
\* mutex can take it when no handler holds it, whatever the mailbox holds
\* and whatever the actor is doing; the mutex is only ever held by a handler
\* thread.
C10_HandlersNeverWaitForActor ==
    status = "serving" =>
        /\ lock \in Threads \cup {"free"}
        /\ \A t \in Threads :
              /\ pc[t] = "send" => ENABLED AddDatumSend(t)
              /\ (pc[t] = "lock" /\ lock = "free") => ENABLED AddDatumMutate(t)
              /\ (pc[t] = "idle" /\ lock = "free")
                    => \A n \in Names : ENABLED GetSeries(t, n)

\* Three points are in memory while the actor is still in gnuplot for the
\* first: the second message is queued and the third call is about to send.
C10_Witness ==
    /\ status = "serving"
    /\ wpc = "plot"
    /\ Len(mailbox) = 1
    /\ \E t \in Threads : pc[t] = "send" /\ local[t].series_name = "a"
    /\ Count(series, "a") = 3
    /\ LogCount("a") = 1

\* C11: every series in the store has at least one point, whether add_datum
\* inserted it or Recovery did; a log file without records never becomes a
\* series (startup panics on it).
C11_NoEmptySeries ==
    \A n \in DOMAIN series : Len(series[n].data) >= 1

\* After a restart the store holds a recovered series and one that
\* add_datum has just inserted.
C11_Witness ==
    /\ restarts = 1
    /\ status = "serving"
    /\ "a" \in DOMAIN recovered
    /\ "b" \in DOMAIN series
    /\ "b" \notin DOMAIN recovered
    /\ Len(series["b"].data) = 1

\* C12: get_series is a lookup without effect.  Its response is 200 with
\* the count exactly for the names that Recovery found or an add_datum call
\* has written, 404 for every other name, and the call changes neither the
\* store nor the mailbox nor the log files: a read of an unknown name does
\* not create it.
C12_ReadIsPureLookup ==
    /\ [](\A t \in Threads, n \in Names :
             ENABLED GetSeries(t, n) =>
                 IF n \in DOMAIN recovered \/ calls[n] > 0
                 THEN GetSeriesResponse(series, n)
                          = Response(200, Count(recovered, n) + calls[n])
                 ELSE /\ GetSeriesResponse(series, n) = Response(404, 0)
                      /\ n \notin DOMAIN series)
    /\ [][\A t \in Threads, n \in Names :
              GetSeries(t, n) =>
                  UNCHANGED <<series, mailbox, files, wpc, wmsg>>]_vars

\* Reads can be served while "a" has been written twice and "b" is unknown,
\* with a message still waiting in the mailbox.
C12_Witness ==
    /\ ENABLED GetSeries("t1", "b")
    /\ calls["a"] = 2
    /\ "a" \notin DOMAIN recovered
    /\ "b" \notin DOMAIN series
    /\ mailbox /= <<>>
    /\ pc["t2"] = "lock"

\* No add_datum call of this run has reached the store yet: the log files
\* are as main found them.
FilesAsAtStartup == \A n \in Names : calls[n] = 0 /\ InFlight(n) = 0

HasCorruptRecord(dir) ==
    \E f \in DOMAIN dir : \E i \in 1..Len(dir[f]) : dir[f][i] = CorruptRecord

\* C13: a record that does not parse, in whichever log file, aborts startup.
\* The server then holds no store and accepts no request, and a server that
\* does run has taken every record of every file into its store.
C13_CorruptRecordAbortsStartup ==
    /\ (FilesAsAtStartup /\ HasCorruptRecord(files)) => status = "aborted"
    /\ status = "aborted" =>
           /\ series = EmptyMap
           /\ \A t \in Threads, n \in Names : ~ENABLED GetSeries(t, n)
           /\ \A t \in Threads, post \in Posts :
                  ~ENABLED AddDatumBegin(t, post[1], post[2])
    /\ (FilesAsAtStartup /\ status = "serving") =>
           \A f \in DOMAIN files :
               /\ file_stem(f) \in DOMAIN series
               /\ Len(series[file_stem(f)].data) = Len(files[f])

\* A restart over a log whose last record was torn by a failed append:
\* the two good records before it do not bring the server up.
C13_Witness ==
    /\ restarts = 1
    /\ status = "aborted"
    /\ Len(FileContents(files, FileName("a"))) = 3
    /\ FileContents(files, FileName("a"))[3] = CorruptRecord
    /\ FileContents(files, FileName("a"))[1] /= CorruptRecord

\* The messages for the same series that were queued after mailbox[i]
LaterJobs(i) ==
    Cardinality({j \in (i + 1)..Len(mailbox) :
                    mailbox[j].series_name = mailbox[i].series_name})

\* C14: add_datum sends its message while it still holds the store's lock.
\* From a caller's push or insert to its do_send no other caller can change
\* the store or send, and so the messages of a series wait in the mailbox in
\* the order of the changes: each one carries the series as it was before
\* the changes of the messages behind it.
C14_EnqueueUnderLock ==
    /\ \A t \in Threads :
           pc[t] = "send" =>
               /\ lock = t
               /\ \A u \in Threads \ {t} :
                      ~ENABLED AddDatumMutate(u) /\ ~ENABLED AddDatumSend(u)
    /\ \A i \in 1..Len(mailbox) :
           /\ mailbox[i].series_name \in DOMAIN series
           /\ mailbox[i].data =
                  SubSeq(series[mailbox[i].series_name].data, 1,
                         Count(series, mailbox[i].series_name) - LaterJobs(i)
                             - InFlight(mailbox[i].series_name))

\* One caller is between its push and its do_send while the other waits
\* for the lock with a datum for the same series, behind a queued message.
C14_Witness ==
    /\ pc["t1"] = "send"
    /\ lock = "t1"
    /\ pc["t2"] = "lock"
    /\ local["t1"].series_name = "a"
    /\ local["t2"].series_name = "a"
    /\ mailbox /= <<>>
    /\ Head(mailbox).series_name = "a"

\* C15: the actor handles its messages one at a time and in the order of
\* the mailbox.  A log file changes only in a step that starts on the oldest
\* queued message while the actor is idle, that is after the append and the
\* render of the message before have both ended; while a render runs no
\* append can begin.
C15_OneJobAtATimeInOrder ==
    /\ [](wpc = "plot" => wmsg /= NoMsg /\ ~ENABLED HandleAppend)
    /\ [][(files' /= files \/ (wmsg' /= wmsg /\ wmsg' /= NoMsg)) =>
              /\ wpc = "idle"
              /\ wmsg = NoMsg
              /\ mailbox /= <<>>
              /\ wpc' = "plot" =>
                     /\ wmsg' = Head(mailbox)
                     /\ mailbox' = Tail(mailbox)
                     /\ files' = append_last_datum(files,
                                     FileName(wmsg'.series_name), wmsg'.data)]_vars

\* A render is running on a message for "a" while messages for "b" and
\* then "a" wait in the mailbox.
C15_Witness ==
    /\ wpc = "plot"
    /\ wmsg.series_name = "a"
    /\ Len(mailbox) = 2
    /\ mailbox[1].series_name = "b"
    /\ mailbox[2].series_name = "a"

\* C16: the message add_datum sends carries the whole series as its own
\* push or insert left it, ending with the datum of that call; handling the
\* message appends to the log the record of that last datum and nothing
\* else, after the records the log already had.
C16_JobCarriesSeriesAppendsLast ==
    [][/\ \A t \in Threads :
             (pc[t] = "send" /\ pc'[t] = "idle" /\ status' = "serving"
                  /\ restarts' = restarts /\ wpc /= "dead") =>
                 /\ mailbox' = Append(mailbox,
                                   [series_name |-> local[t].series_name,
                                    data |-> series[local[t].series_name].data])
                 /\ mailbox'[Len(mailbox')].data[Count(series, local[t].series_name)]
                        = local[t].info
       /\ (wpc = "idle" /\ wpc' = "plot") =>
             LET m == Head(mailbox)
                 f == [stem |-> m.series_name, ext |-> "csv"]
             IN FileContents(files', f) =
                    Append(FileContents(files, f),
                           [ts |-> Tok("num", m.data[Len(m.data)].timeStamp),
                            value |-> Tok("num", m.data[Len(m.data)].value)])]_vars

\* The message being rendered carried the three points of "a", two of them
\* recovered; its append has brought the log from two records to three.
C16_Witness ==
    /\ wpc = "plot"
    /\ wmsg.series_name = "a"
    /\ Len(wmsg.data) = 3
    /\ Count(recovered, "a") = 2
    /\ LogCount("a") = 3

\* The messages for n waiting in the mailbox
Queued(n) ==
    Cardinality({i \in 1..Len(mailbox) : mailbox[i].series_name = n})

\* The appends to n's log since startup, a torn one included
Handled(n) == LogCount(n) - Count(recovered, n)

\* C17: every add_datum call that returned Ok has sent one message, and
\* every message is handled at most once.  The appends of this run and the
\* messages still queued never outnumber the calls, and equal them as long
\* as the actor lives; after a failed append or render the actor is gone
\* with an empty mailbox, so nothing is retried or queued again.
C17_OneJobPerWriteAtMostOnce ==
    status /= "aborted" =>
        /\ \A n \in Names :
               /\ Handled(n) + Queued(n) <= calls[n]
               /\ wpc /= "dead" => Handled(n) + Queued(n) = calls[n]
        /\ wpc = "dead" =>
               /\ mailbox = <<>>
               /\ wmsg = NoMsg
               /\ ~ENABLED HandleAppend
               /\ ~ENABLED HandlePlot

\* Two calls on "a" have returned; one append reached the log and the
\* actor has ended in a panic: the other message is gone and stays gone.
C17_Witness ==
    /\ status = "serving"
    /\ wpc = "dead"
    /\ "a" \notin DOMAIN recovered
    /\ calls["a"] = 2
    /\ LogCount("a") = 1
    /\ FileContents(files, FileName("a"))[1] /= CorruptRecord
    /\ \A t \in Threads : pc[t] = "idle"

\* The log of n is the beginning of the series n in memory.
LogIsPrefixOfSeries(n) ==
    /\ LogCount(n) <= Count(series, n)
    /\ \A i \in 1..LogCount(n) :
           FileContents(files, FileName(n))[i] = Serialize(series[n].data[i])

\* No append and no render has failed in this run.
NoFailureSoFar == status = "serving" /\ wpc /= "dead"

\* C18 as stated: without failures the log of every series is a prefix of
\* the series in memory, and its records plus the messages of the series
\* not yet appended make up the points in memory.
C18_LogPlusQueuedIsCount ==
    NoFailureSoFar =>
        \A n \in Names :
            /\ LogIsPrefixOfSeries(n)
            /\ LogCount(n) + Queued(n) = Count(series, n)

\* C18, amended: the points in memory are the log records, the queued
\* messages and the calls that have changed the store under the lock and
\* have not sent their message yet.
C18_LogPlusPendingIsCount ==
    NoFailureSoFar =>
        \A n \in Names :
            /\ LogIsPrefixOfSeries(n)
            /\ LogCount(n) + Queued(n) + InFlight(n) = Count(series, n)

\* Two recovered points of "a" and three calls: one appended, one queued,
\* one between its push and its do_send.
C18_Witness ==
    /\ NoFailureSoFar
    /\ Count(recovered, "a") = 2
    /\ LogCount("a") = 3
    /\ Queued("a") = 1
    /\ InFlight("a") = 1
    /\ Count(series, "a") = 5

\* C19: a restart, at whatever moment the process stopped, brings back for
\* every series a beginning of what the store held for it: points accepted
\* and not yet appended may be gone, but what comes back is in the old
\* order, without a repeated or new point, and no series comes back that
\* the store did not hold.
C19_RestartYieldsPrefix ==
    [][(restarts' = restarts + 1 /\ status' = "serving") =>
          \A n \in DOMAIN series' :
              /\ n \in DOMAIN series
              /\ Len(series'[n].data) <= Len(series[n].data)
              /\ series'[n].data
                     = SubSeq(series[n].data, 1, Len(series'[n].data))]_vars

\* The clock shows three changes of the store before the restart; the
\* restarted server holds one point of "a" and no "b".
C19_Witness ==
    /\ restarts = 1
    /\ status = "serving"
    /\ now = StartTime + 3
    /\ series = recovered
    /\ Count(series, "a") = 1
    /\ "b" \notin DOMAIN series

\* C20: a write to one series leaves all others alone.  The push or insert
\* changes no other entry of the store, the message sent names the written
\* series, and handling a message changes no log file but that of the
\* series it names.
C20_WriteTouchesOnlyItsSeries ==
    [][/\ \A t \in Threads :
             (pc[t] = "lock" /\ pc'[t] = "send") =>
                 /\ DOMAIN series' = DOMAIN series \cup {local[t].series_name}
                 /\ \A n \in DOMAIN series \ {local[t].series_name} :
                        series'[n] = series[n]
                 /\ UNCHANGED <<files, mailbox>>
       /\ \A t \in Threads :
             (pc[t] = "send" /\ pc'[t] = "idle" /\ status' = "serving"
                  /\ restarts' = restarts /\ wpc /= "dead") =>
                 /\ SubSeq(mailbox', 1, Len(mailbox)) = mailbox
                 /\ Len(mailbox') = Len(mailbox) + 1
                 /\ mailbox'[Len(mailbox')].series_name = local[t].series_name
                 /\ UNCHANGED <<files, series>>
       /\ files' /= files =>
             /\ mailbox /= <<>>
             /\ series' = series
             /\ \A f \in DOMAIN files \cup DOMAIN files' :
                    f /= [stem |-> Head(mailbox).series_name, ext |-> "csv"] =>
                        /\ f \in DOMAIN files
                        /\ f \in DOMAIN files'
                        /\ files'[f] = files[f]]_vars

\* The first point of "b" has been written and appended next to a
\* recovered "a", whose entry and log are as Recovery found them.
C20_Witness ==
    /\ wpc = "plot"
    /\ wmsg.series_name = "b"
    /\ Count(recovered, "a") = 2
    /\ series["a"] = recovered["a"]
    /\ LogCount("a") = 2
    /\ LogCount("b") = 1

====
